---------------------------- MODULE Spec2Model ----------------------------
(***************************************************************************)
(* Model of 104_crawler_new.py: the configuration reader (read_config),    *)
(* the listing fetcher (fetch_job_list), the detail fetcher and normalizer *)
(* (fetch_job_detail) and the run driver (the __main__ block).             *)
(*                                                                         *)
(* Strings.  A Python string is modelled as a sequence of tokens.  The     *)
(* characters the code treats specially (" ", "\n", ",", "=", "#", "?",    *)
(* "/", ":" and the two-character line break "\r\n") are tokens of their   *)
(* own; every other token stands for a fixed non-empty run of ordinary     *)
(* characters.  No word token used below is a concatenation of others, so  *)
(* two token sequences are equal exactly when the strings are.  The source *)
(* writes region names and column names in Chinese; the model writes them  *)
(* in Latin transcription.                                                 *)
(***************************************************************************)
EXTENDS Naturals, Sequences, FiniteSets, TLC

VARIABLES
    \* ---- read_config (lines 33-57) ----
    nread,      \* number of lines `for line in f` has yielded
    line,       \* the loop variable `line` as read from the file
    params,     \* the dict `params`
    warned,     \* region names printed by line 54, in order
    cfg_pc,     \* "idle" | "reading" | "returned"
    \* ---- fetch_job_detail (lines 77-184) ----
    nd_in,      \* [job_id, resp]: the argument and the HTTP response
    nd_out,     \* the outcome of the call: [exc, rec]
    nd_pc,      \* "idle" | "called" | "returned"
    \* ---- __main__ (lines 187-208) ----
    pc,         \* "idle", or the statement to run next: "config" | "list" |
                \* "loop" | "save"; "done"; or "crashed:<statement>" when an
                \* exception left the program there
    config_txt, \* the file config.txt: [exists, lines]
    list_resp,  \* the answer of the search-list endpoint, once requested
    main_params,\* `params` of the main block
    job_list,   \* `job_list`
    idx,        \* number of elements of job_list the for loop has taken
    all_jobs,   \* `all_jobs`
    resps,      \* per taken element, the answer of the detail endpoint
    events,     \* what the run did, in order: requests, prints, sleeps, export
    exported    \* the rows handed to to_excel, <<>> if it was never called

cfg_vars  == <<nread, line, params, warned, cfg_pc>>
nd_vars   == <<nd_in, nd_out, nd_pc>>
main_vars == <<pc, config_txt, list_resp, main_params, job_list, idx, all_jobs, resps,
               events, exported>>
vars      == <<cfg_vars, nd_vars, main_vars>>

---------------------------------------------------------------------------
(* Bounds of the model.                                                    *)
MaxLines == 1      \* lines in a config file
MaxNames == 2      \* comma-separated names on an `area` line
MaxJobs  == 3      \* elements of data.list
MaxSet   == 2      \* fields of a detail document that are present

---------------------------------------------------------------------------
(* Python string operations on token sequences.                            *)

\* str.strip() removes these from both ends.
IsSpace(c) == c \in {" ", "\n", "\r\n"}

RECURSIVE LStrip(_)
LStrip(s) == IF s # <<>> /\ IsSpace(Head(s)) THEN LStrip(Tail(s)) ELSE s

RECURSIVE RStrip(_)
RStrip(s) ==
    IF s # <<>> /\ IsSpace(s[Len(s)]) THEN RStrip(SubSeq(s, 1, Len(s) - 1)) ELSE s

Strip(s) == RStrip(LStrip(s))

Contains(s, c) == \E i \in 1..Len(s) : s[i] = c

\* Index of the first occurrence of c in s (c occurs in s).
FirstIndex(s, c) == CHOOSE i \in 1..Len(s) : s[i] = c /\ \A j \in 1..(i - 1) : s[j] # c

\* s.split(c): the pieces between the occurrences of c, always at least one.
RECURSIVE Split(_, _)
Split(s, c) ==
    IF ~Contains(s, c) THEN <<s>>
    ELSE <<SubSeq(s, 1, FirstIndex(s, c) - 1)>>
            \o Split(SubSeq(s, FirstIndex(s, c) + 1, Len(s)), c)

\* sep.join(list)
RECURSIVE Join(_, _)
Join(list, sep) ==
    IF list = <<>> THEN <<>>
    ELSE IF Len(list) = 1 THEN list[1]
    ELSE list[1] \o sep \o Join(Tail(list), sep)

\* s.replace("\r\n", " ")
ReplaceCRLF(s) == [i \in 1..Len(s) |-> IF s[i] = "\r\n" THEN " " ELSE s[i]]

---------------------------------------------------------------------------
(* AREA_CODES, lines 7-30.                                                 *)
AREA_CODES ==
    [n \in {"TaipeiCity", "NewTaipeiCity", "TaoyuanCity", "TaichungCity",
            "KaohsiungCity", "TainanCity", "HsinchuCounty", "HsinchuCity",
            "MiaoliCounty", "ChanghuaCounty", "YunlinCounty", "ChiayiCity",
            "ChiayiCounty", "PingtungCounty", "YilanCounty", "HualienCounty",
            "TaitungCounty", "KeelungCity", "NantouCounty", "PenghuCounty",
            "KinmenCounty", "LienchiangCounty"} |->
       CASE n = "TaipeiCity"       -> "6001001000"
         [] n = "NewTaipeiCity"    -> "6001002000"
         [] n = "TaoyuanCity"      -> "6001003000"
         [] n = "TaichungCity"     -> "6001004000"
         [] n = "KaohsiungCity"    -> "6001005000"
         [] n = "TainanCity"       -> "6001006000"
         [] n = "HsinchuCounty"    -> "6001007000"
         [] n = "HsinchuCity"      -> "6001008000"
         [] n = "MiaoliCounty"     -> "6001009000"
         [] n = "ChanghuaCounty"   -> "6001011000"
         [] n = "YunlinCounty"     -> "6001012000"
         [] n = "ChiayiCity"       -> "6001010000"
         [] n = "ChiayiCounty"     -> "6001011000"
         [] n = "PingtungCounty"   -> "6001013000"
         [] n = "YilanCounty"      -> "6001015000"
         [] n = "HualienCounty"    -> "6001014000"
         [] n = "TaitungCounty"    -> "6001016000"
         [] n = "KeelungCity"      -> "6001017000"
         [] n = "NantouCounty"     -> "6001018000"
         [] n = "PenghuCounty"     -> "6001019000"
         [] n = "KinmenCounty"     -> "6001020000"
         [] n = "LienchiangCounty" -> "6001021000"]

\* `a in AREA_CODES` for a string a: a is exactly one table key.
InAreaCodes(a) == Len(a) = 1 /\ a[1] \in DOMAIN AREA_CODES

---------------------------------------------------------------------------
(* read_config, lines 33-57.                                               *)

\* Lines 48-55: the value of an `area` line.  Returns the new value and the
\* names line 54 prints, scanning the names left to right.
RECURSIVE ResolveFrom(_, _, _)
ResolveFrom(areas, codes, prints) ==
    IF areas = <<>> THEN [value |-> Join(codes, <<",">>), prints |-> prints]
    ELSE IF InAreaCodes(Head(areas))
         THEN ResolveFrom(Tail(areas), Append(codes, <<AREA_CODES[Head(areas)[1]]>>), prints)
         ELSE ResolveFrom(Tail(areas), codes, Append(prints, Head(areas)))

\* ResolveAreas with a `break` in the else branch of line 53: the scan stops
\* at the first name that is not in the table.
RECURSIVE ResolveUntilUnknown(_, _)
ResolveUntilUnknown(areas, codes) ==
    IF areas = <<>> THEN [value |-> Join(codes, <<",">>), prints |-> <<>>]
    ELSE IF InAreaCodes(Head(areas))
         THEN ResolveUntilUnknown(Tail(areas), Append(codes, <<AREA_CODES[Head(areas)[1]]>>))
         ELSE [value |-> Join(codes, <<",">>), prints |-> <<Head(areas)>>]

ResolveAreasStopAtUnknown(value) ==
    LET pieces == Split(value, ",")
        areas  == [i \in 1..Len(pieces) |-> Strip(pieces[i])]
    IN  ResolveUntilUnknown(areas, <<>>)

ResolveAreas(value) ==
    LET pieces == Split(value, ",")
        areas  == [i \in 1..Len(pieces) |-> Strip(pieces[i])]
    IN  ResolveFrom(areas, <<>>, <<>>)

\* Lines 38-42: the loop `continue`s on this (stripped) line.
Skipped(stripped) ==
    \/ stripped = <<>>
    \/ Head(stripped) = "#"
    \/ ~Contains(stripped, "=")

\* params[k] = v
DictSet(d, k, v) == [x \in DOMAIN d \cup {k} |-> IF x = k THEN v ELSE d[x]]

\* Lines 38-56: one iteration of `for line in f` on the state [params, prints].
ProcessLine(raw, st) ==
    LET stripped == Strip(raw)
    IN  IF Skipped(stripped) THEN st
        ELSE LET eq    == FirstIndex(stripped, "=")
                 key   == SubSeq(stripped, 1, eq - 1)
                 value == Strip(SubSeq(stripped, eq + 1, Len(stripped)))
                 res   == IF key = <<"area">>
                          THEN ResolveAreas(value)
                          ELSE [value |-> value, prints |-> <<>>]
             IN  [params |-> DictSet(st.params, Strip(key), res.value),
                  prints |-> st.prints \o res.prints]

\* The whole of read_config on an existing file.
RECURSIVE ReadLines(_, _)
ReadLines(lines, st) ==
    IF lines = <<>> THEN st ELSE ReadLines(Tail(lines), ProcessLine(Head(lines), st))

EmptyDict == [x \in {} |-> <<>>]

read_config(file) == ReadLines(file, [params |-> EmptyDict, prints |-> <<>>])


---------------------------------------------------------------------------
(* The lines a config file is made of in this model.                       *)

\* One name of an `area` value as written in the file: two table names, a
\* table name written with blanks around it, a name not in the table, and
\* the empty name (nothing between two commas, or an empty value).
NameTexts ==
    {<<"TaipeiCity">>, <<"NewTaipeiCity">>, <<" ", "ChiayiCounty", " ">>, <<"Mars">>, <<>>}

\* The lists of names of `area` lines: 1 to MaxNames names.
NameSeqs == UNION {[1..k -> NameTexts] : k \in 1..MaxNames}

\* The `area` line with the key written as k and the names l.
AreaLineOf(k, l) == k \o Join(l, <<",">>) \o <<"\n">>

\* The key as written, up to and including the first "=".
AreaKeyTexts == {<<"area", "=">>, <<"area", " ", "=", " ">>}

AreaLines == {AreaLineOf(k, l) : k \in AreaKeyTexts, l \in NameSeqs}

OtherLines ==
    { <<"keyword", "=", "python", "\n">>,
      <<" ", "keyword", " ", "=", " ", "TaipeiCity", ",", "Mars", "\n">>,
      <<"ro", "=", "1", "=", "2", "\n">>,
      <<"#", "area", "=", "TaipeiCity", "\n">>,
      <<"\n">>,
      <<"area", "\n">> }

ConfigLines == AreaLines \cup OtherLines

---------------------------------------------------------------------------
(* Specification of read_config alone: the file is opened and its lines    *)
(* are read one by one.                                                    *)

NoLine == <<"<none>">>

CfgIdle ==
    /\ nread = 0 /\ line = NoLine /\ params = EmptyDict /\ warned = <<>>
    /\ cfg_pc = "idle"

\* Lines 37-56: the loop takes the next line of the file.
ReadLine(l) ==
    /\ cfg_pc = "reading"
    /\ nread < MaxLines
    /\ LET st == ProcessLine(l, [params |-> params, prints |-> warned])
       IN  /\ params' = st.params
           /\ warned' = st.prints
    /\ line' = l
    /\ nread' = nread + 1
    /\ UNCHANGED cfg_pc

\* Line 57: the file is exhausted and params is returned.
ReturnParams ==
    /\ cfg_pc = "reading"
    /\ cfg_pc' = "returned"
    /\ UNCHANGED <<nread, line, params, warned>>


CfgOpen ==
    /\ nread = 0 /\ line = NoLine /\ params = EmptyDict /\ warned = <<>>
    /\ cfg_pc = "reading"

NextConfig ==
    \/ \E l \in ConfigLines : ReadLine(l)
    \/ ReturnParams


---------------------------------------------------------------------------
(* JSON and Python values.  Every value is a record [t, s, l]: t is the    *)
(* type, s the tokens of a string, l the elements of a list.  "absent" is  *)
(* not a value: it marks a key a dict does not have.                       *)

Absent  == [t |-> "absent", s |-> <<>>, l |-> <<>>]
None    == [t |-> "null",   s |-> <<>>, l |-> <<>>]
Dict    == [t |-> "dict",   s |-> <<>>, l |-> <<>>]
Str(s)  == [t |-> "str",    s |-> s,    l |-> <<>>]
List(l) == [t |-> "list",   s |-> <<>>, l |-> l]

\* An element of condition.language, condition.specialty or condition.skill:
\* a dict with some of the keys language, ability and desc.
Entry(language, ability, desc) ==
    [language |-> language, ability |-> ability, desc |-> desc]

\* bool(v): None, "" and [] are false.
Truthy(v) ==
    CASE v.t = "str"  -> v.s # <<>>
      [] v.t = "list" -> v.l # <<>>
      [] OTHER        -> FALSE

\* d.get(k) and d.get(k, default), given the marker or value found under k.
Get(x) == IF x.t = "absent" THEN None ELSE x
GetD(x, default) == IF x.t = "absent" THEN default ELSE x

\* The keys of the `data` object fetch_job_detail reads (as paths), and
\* "switch", a key of the real document that it does not read.
Sections == {"header", "jobDetail", "condition", "custInfo", "welfare", "requirement"}

FieldPaths ==
    { <<"header", "custName">>, <<"header", "jobName">>, <<"header", "appearDate">>,
      <<"jobDetail", "jobName">>, <<"jobDetail", "addressRegion">>,
      <<"jobDetail", "addressDetail">>, <<"jobDetail", "salary">>,
      <<"jobDetail", "needEmp">>, <<"jobDetail", "jobDescription">>,
      <<"jobDetail", "specialty">>, <<"jobDetail", "skill">>,
      <<"jobDetail", "otherCondition">>,
      <<"condition", "language">>, <<"condition", "specialty">>,
      <<"condition", "skill">>, <<"condition", "other">>,
      <<"condition", "workExp">>, <<"condition", "edu">>,
      <<"custInfo", "custName">>, <<"welfare", "welfare">>,
      <<"requirement", "other">> }

TopPaths == {<<"custName">>, <<"jobName">>, <<"switch">>} \cup {<<sec>> : sec \in Sections}

Paths == TopPaths \cup FieldPaths

\* info.get(sec, {}) is None: the following sec.get(...) raises.
SecIsNone(info, sec) == info[<<sec>>].t = "null"

\* sec.get(key) where sec = info.get(sec, {}) is a dict.
SecGet(info, sec, key) ==
    IF info[<<sec>>].t = "dict" THEN Get(info[<<sec, key>>]) ELSE None

\* sec.get(key, "")
SecGetD(info, sec, key) ==
    IF info[<<sec>>].t = "dict" THEN GetD(info[<<sec, key>>], Str(<<>>)) ELSE Str(<<>>)

\* `not data.get("data")`: the data object is missing, null or has no key.
DataFalsy(resp) ==
    \/ resp.data # "dict"
    \/ \A p \in TopPaths : resp.doc[p].t = "absent"

---------------------------------------------------------------------------
(* fetch_job_detail, lines 77-184.  Every step yields [exc, v]: the        *)
(* exception it raises ("" for none) and its value.                        *)

Ok(v)      == [exc |-> "", v |-> v]
Raise(exc) == [exc |-> exc, v |-> None]

\* The first exception of a sequence of steps in evaluation order.
RECURSIVE FirstExc(_)
FirstExc(steps) ==
    IF steps = <<>> THEN ""
    ELSE IF Head(steps).exc # "" THEN Head(steps).exc ELSE FirstExc(Tail(steps))

\* a or b or ... or default, where operand i is sec_i.get(key_i):
\* operands[i] = [none |-> sec_i is None, v |-> the value got].
RECURSIVE OrChain(_, _)
OrChain(operands, default) ==
    IF operands = <<>> THEN Ok(default)
    ELSE IF Head(operands).none THEN Raise("AttributeError")
    ELSE IF Truthy(Head(operands).v) THEN Ok(Head(operands).v)
    ELSE OrChain(Tail(operands), default)

Operand(info, sec, key) == [none |-> SecIsNone(info, sec), v |-> SecGet(info, sec, key)]
TopOperand(info, key)   == [none |-> FALSE, v |-> Get(info[<<key>>])]

UnknownCompany == Str(<<"(UnknownCompany)">>)   \* line 111
UntitledJob    == Str(<<"(UntitledJob)">>)      \* line 118
Unspecified    == Str(<<"Unspecified">>)        \* lines 128, 141, 154

\* Line 80: job_id.split("?")[0].split("/")[-1]
ExtractId(job_id) ==
    LET segs == Split(Split(job_id, "?")[1], "/") IN segs[Len(segs)]

\* Lines 107-112.
CompanyName(info) ==
    OrChain(<<TopOperand(info, "custName"), Operand(info, "custInfo", "custName"),
              Operand(info, "header", "custName")>>, UnknownCompany)

\* Lines 114-119.
JobName(info) ==
    OrChain(<<Operand(info, "jobDetail", "jobName"), Operand(info, "header", "jobName"),
              TopOperand(info, "jobName")>>, UntitledJob)

\* Lines 124-127: the strings appended to lang_list for the entries of a list.
RECURSIVE LangList(_)
LangList(entries) ==
    IF entries = <<>> THEN <<>>
    ELSE LET lang_item == GetD(Head(entries).language, Str(<<>>))
             ability   == GetD(Head(entries).ability, Str(<<>>))
         IN  (IF Truthy(lang_item)
              THEN <<IF Truthy(ability) THEN lang_item.s \o <<":">> \o ability.s
                                        ELSE lang_item.s>>
              ELSE <<>>) \o LangList(Tail(entries))

\* Lines 122-128.
Language(info) ==
    IF SecIsNone(info, "condition") THEN Raise("AttributeError")
    ELSE LET it == IF info[<<"condition">>].t = "dict"
                   THEN GetD(info[<<"condition", "language">>], List(<<>>))
                   ELSE List(<<>>)
         IN  CASE it.t = "null" -> Raise("TypeError")         \* for lang in None
               [] it.t = "str"  -> IF it.s = <<>> THEN Ok(Unspecified)
                                   ELSE Raise("AttributeError") \* "E".get
               [] OTHER -> LET lang_list == LangList(it.l)
                           IN  Ok(IF lang_list # <<>>
                                  THEN Str(Join(lang_list, <<",", " ">>))
                                  ELSE Unspecified)

\* Lines 133 and 146: [e.get("desc", "") for e in entries if e.get("desc")]
RECURSIVE DescList(_)
DescList(entries) ==
    IF entries = <<>> THEN <<>>
    ELSE (IF Truthy(Get(Head(entries).desc)) THEN <<Head(entries).desc.s>> ELSE <<>>)
             \o DescList(Tail(entries))

\* Lines 131-141 with key = "specialty", lines 144-154 with key = "skill".
ListOrText(info, key) ==
    IF SecIsNone(info, "condition") THEN Raise("AttributeError")
    ELSE LET c == SecGet(info, "condition", key)
             chosen ==
                 IF c.t = "list" THEN Ok(Str(Join(DescList(c.l), <<",", " ">>)))
                 ELSE IF c.t = "str" THEN Ok(c)
                 ELSE IF SecIsNone(info, "jobDetail") THEN Raise("AttributeError")
                 ELSE IF Truthy(SecGet(info, "jobDetail", key))
                      THEN Ok(SecGet(info, "jobDetail", key))
                      ELSE Ok(Str(<<>>))
         IN  IF chosen.exc # "" THEN chosen
             ELSE IF ~Truthy(chosen.v) THEN Ok(Unspecified) ELSE chosen

Specialty(info) == ListOrText(info, "specialty")
Skills(info)    == ListOrText(info, "skill")

\* Lines 157-163.  The sources hold strings, on which str() is the identity.
OtherCondition(info) ==
    LET chain == OrChain(<<Operand(info, "condition", "other"),
                           Operand(info, "jobDetail", "otherCondition"),
                           Operand(info, "requirement", "other")>>, Str(<<>>))
    IN  IF chain.exc # "" THEN chain
        ELSE Ok(Str(Strip(ReplaceCRLF(chain.v.s))))

\* sec.get(key, "") as written in the dict of lines 166-182.
Direct(info, sec, key) ==
    IF SecIsNone(info, sec) THEN Raise("AttributeError") ELSE Ok(SecGetD(info, sec, key))

\* (sec.get(key, "") or "")
DirectOrEmpty(info, sec, key) ==
    IF SecIsNone(info, sec) THEN Raise("AttributeError")
    ELSE Ok(IF Truthy(SecGetD(info, sec, key)) THEN SecGetD(info, sec, key) ELSE Str(<<>>))

\* Line 169.
Location(info) ==
    LET a == DirectOrEmpty(info, "jobDetail", "addressRegion")
        b == DirectOrEmpty(info, "jobDetail", "addressDetail")
    IN  IF a.exc # "" THEN a ELSE Ok(Str(a.v.s \o b.v.s))

\* Line 178.
JobDescription(info) ==
    LET a == DirectOrEmpty(info, "jobDetail", "jobDescription")
    IN  IF a.exc # "" THEN a ELSE Ok(Str(Strip(ReplaceCRLF(a.v.s))))

\* Line 181.
JobLink(id) == Str(<<"https:", "/", "/", "www.104.com.tw", "/", "job", "/">> \o id)

\* The keys of job_data, lines 167-181, in order.
Columns ==
    <<"company_name", "job_name", "location", "work_exp", "edu", "language",
      "specialty", "skills", "salary", "welfare", "need_emp", "job_description",
      "other_condition", "appear_date", "link">>

ColumnSet == {Columns[i] : i \in 1..Len(Columns)}

NoRecord == [c \in ColumnSet |-> Absent]

\* Lines 97-184: the steps on info = data["data"], in evaluation order, and
\* the dict they build.
Normalize(info, id) ==
    LET company_name    == CompanyName(info)
        job_name        == JobName(info)
        language        == Language(info)
        specialty       == Specialty(info)
        skills          == Skills(info)
        other_condition == OtherCondition(info)
        location        == Location(info)
        work_exp        == Direct(info, "condition", "workExp")
        edu             == Direct(info, "condition", "edu")
        salary          == Direct(info, "jobDetail", "salary")
        welfare         == Direct(info, "welfare", "welfare")
        need_emp        == Direct(info, "jobDetail", "needEmp")
        job_description == JobDescription(info)
        appear_date     == Direct(info, "header", "appearDate")
        exc == FirstExc(<<company_name, job_name, language, specialty, skills,
                          other_condition, location, work_exp, edu, salary, welfare,
                          need_emp, job_description, appear_date>>)
    IN  IF exc # "" THEN [exc |-> exc, rec |-> NoRecord]
        ELSE [exc |-> "",
              rec |-> [c \in ColumnSet |->
                  CASE c = "company_name"    -> company_name.v
                    [] c = "job_name"        -> job_name.v
                    [] c = "location"        -> location.v
                    [] c = "work_exp"        -> work_exp.v
                    [] c = "edu"             -> edu.v
                    [] c = "language"        -> language.v
                    [] c = "specialty"       -> specialty.v
                    [] c = "skills"          -> skills.v
                    [] c = "salary"          -> salary.v
                    [] c = "welfare"         -> welfare.v
                    [] c = "need_emp"        -> need_emp.v
                    [] c = "job_description" -> job_description.v
                    [] c = "other_condition" -> other_condition.v
                    [] c = "appear_date"     -> appear_date.v
                    [] c = "link"            -> JobLink(id)]]

\* fetch_job_detail(job_id) when the detail endpoint answers resp.
\* job_id is the value of job["link"]["job"]: a string or None.
FetchJobDetail(job_id, resp) ==
    IF job_id.t # "str" THEN [exc |-> "AttributeError", rec |-> NoRecord]  \* line 80
    ELSE IF resp.status # "ok" THEN [exc |-> "HTTPError", rec |-> NoRecord] \* line 91
    ELSE IF ~resp.json THEN [exc |-> "JSONDecodeError", rec |-> NoRecord]   \* line 92
    ELSE IF DataFalsy(resp) THEN [exc |-> "ValueError", rec |-> NoRecord]   \* line 95
    ELSE Normalize(resp.doc, ExtractId(job_id.s))


---------------------------------------------------------------------------
(* The detail documents of this model: at most MaxSet keys are set on an   *)
(* otherwise empty `data` object (setting a key of a section creates the   *)
(* section).                                                               *)

TextValues ==
    {None, Str(<<>>), Str(<<"Acme">>), Str(<<" ", "Line1", "\r\n", "Line2", " ">>)}

DescEntry(d) == Entry(Absent, Absent, d)

ListOrTextValues ==
    {None, Str(<<>>), Str(<<"Python">>), List(<<>>),
     List(<<DescEntry(Str(<<"Excel">>))>>),
     List(<<DescEntry(Str(<<"Excel">>)), DescEntry(Str(<<>>)), DescEntry(Absent),
            DescEntry(Str(<<"SQL">>))>>)}

LanguageValues ==
    {None, Str(<<>>), Str(<<"English">>), List(<<>>),
     List(<<Entry(Str(<<"English">>), Str(<<"Fluent">>), Absent),
            Entry(Str(<<"Japanese">>), Str(<<>>), Absent)>>),
     List(<<Entry(Absent, Str(<<"Fluent">>), Absent),
            Entry(Str(<<"German">>), Absent, Absent)>>)}

ValuesAt(p) ==
    IF p = <<"condition", "language">> THEN LanguageValues
    ELSE IF p \in {<<"condition", "specialty">>, <<"condition", "skill">>}
         THEN ListOrTextValues
    ELSE IF Len(p) = 1 /\ p[1] \in Sections THEN {None, Dict}
    ELSE TextValues

EmptyDoc == [p \in Paths |-> Absent]

\* doc with v under path p; a field can only be set in a section that is a
\* dict or absent, and a section holding fields stays a dict.
CanSet(doc, p) ==
    /\ Len(p) = 2 => doc[<<p[1]>>].t # "null"
    /\ (Len(p) = 1 /\ p[1] \in Sections) =>
           \A q \in FieldPaths : q[1] = p[1] => doc[q].t = "absent"

SetPath(doc, p, v) ==
    [q \in Paths |-> IF q = p THEN v
                     ELSE IF Len(p) = 2 /\ q = <<p[1]>> THEN Dict
                     ELSE doc[q]]

RECURSIVE Docs(_)
Docs(n) ==
    IF n = 0 THEN {EmptyDoc}
    ELSE LET prev == Docs(n - 1)
         IN  prev \cup UNION {UNION {{SetPath(d, p, v) : v \in ValuesAt(p)} :
                                       p \in {q \in Paths : CanSet(d, q)}} : d \in prev}

\* An answer of the detail endpoint: the HTTP status, whether the body is
\* JSON, its "data" member ("absent" | "null" | "dict") and, for a dict, doc.
Response(status, json, data, doc) ==
    [status |-> status, json |-> json, data |-> data, doc |-> doc]

\* No request was sent, so there is no answer.
NoResponse == Response("none", FALSE, "absent", EmptyDoc)

FailedResponses ==
    { Response("http_error", FALSE, "absent", EmptyDoc),
      Response("ok", FALSE, "absent", EmptyDoc),
      Response("ok", TRUE, "absent", EmptyDoc),
      Response("ok", TRUE, "null", EmptyDoc) }

\* The answers whose document sets at most n keys.
DetailResponses(n) ==
    FailedResponses \cup {Response("ok", TRUE, "dict", d) : d \in Docs(n)}

RawJobIds ==
    { Str(<<"/", "/", "www.104.com.tw", "/", "job", "/", "8abc1", "?", "jobsource", "=", "n">>),
      Str(<<"7xyz2">>) }

---------------------------------------------------------------------------
(* Specification of fetch_job_detail alone: one call and its outcome.      *)

NoCall == [job_id |-> None, resp |-> NoResponse]
NoOutcome == [exc |-> "none", rec |-> NoRecord]

NdIdle == nd_in = NoCall /\ nd_out = NoOutcome /\ nd_pc = "idle"

NdCalled ==
    /\ nd_in \in [job_id : RawJobIds, resp : DetailResponses(MaxSet)]
    /\ nd_out = NoOutcome
    /\ nd_pc = "called"

\* The call runs to its return or to its exception.
RunFetchJobDetail ==
    /\ nd_pc = "called"
    /\ nd_out' = FetchJobDetail(nd_in.job_id, nd_in.resp)
    /\ nd_pc' = "returned"
    /\ UNCHANGED nd_in


---------------------------------------------------------------------------
(* fetch_job_list, lines 61-73.                                            *)

\* An answer of the search-list endpoint: the HTTP status, whether the body
\* is JSON, whether it has data.list, and that list.
ListResponse(status, json, has_list, list) ==
    [status |-> status, json |-> json, has_list |-> has_list, list |-> list]

\* FetchJobListExc without line 71 (no raise_for_status()).
FetchJobListExcNoStatus(resp) ==
    IF ~resp.json THEN "JSONDecodeError"
    ELSE IF ~resp.has_list THEN "KeyError"
    ELSE ""

\* Lines 71-73: raise_for_status(), res.json() or data["data"]["list"] raises.
FetchJobListExc(resp) ==
    IF resp.status # "ok" THEN "HTTPError"
    ELSE IF ~resp.json THEN "JSONDecodeError"
    ELSE IF ~resp.has_list THEN "KeyError"
    ELSE ""

---------------------------------------------------------------------------
(* The inputs of a run.                                                    *)

\* An element of data.list: whether it has a "link" dict, and the value of
\* link["job"] (a string or null).
Summary(has_link, job) == [has_link |-> has_link, job |-> job]

Summaries ==
    {Summary(TRUE, j) : j \in RawJobIds} \cup {Summary(TRUE, None), Summary(FALSE, None)}

JobLists == UNION {[1..n -> Summaries] : n \in 0..MaxJobs}

ListResponses ==
    { ListResponse("http_error", FALSE, FALSE, <<>>),
      ListResponse("http_error", TRUE, TRUE, <<Summary(TRUE, Str(<<"7xyz2">>))>>),
      ListResponse("ok", FALSE, FALSE, <<>>),
      ListResponse("ok", TRUE, FALSE, <<>>) }
    \cup {ListResponse("ok", TRUE, TRUE, l) : l \in JobLists}

GoodDoc ==
    SetPath(SetPath(EmptyDoc, <<"custName">>, Str(<<"Acme">>)),
            <<"jobDetail", "jobName">>, Str(<<"Engineer">>))

\* Answers of the detail endpoint during a run: a complete document, a
\* withdrawn listing, an HTTP failure, and a document whose condition is null.
RunDetailResponses ==
    { Response("ok", TRUE, "dict", GoodDoc),
      Response("ok", TRUE, "absent", EmptyDoc),
      Response("http_error", FALSE, "absent", EmptyDoc),
      Response("ok", TRUE, "dict", SetPath(GoodDoc, <<"condition">>, None)) }

ConfigFile(exists, lines) == [exists |-> exists, lines |-> lines]

ConfigFiles ==
    { ConfigFile(FALSE, <<>>),
      ConfigFile(TRUE, << <<"keyword", "=", "python", "\n">>,
                          <<"area", "=", "TaipeiCity", ",", "NewTaipeiCity", "\n">> >>),
      ConfigFile(TRUE, << <<"area", "=", "Mars", "\n">> >>) }

---------------------------------------------------------------------------
(* The main block, lines 187-208.                                          *)

\* Something the run did: a request, a print, a sleep, the export, or the
\* traceback of an uncaught exception.
Event(e, id, a, b, exc) == [e |-> e, id |-> id, a |-> a, b |-> b, exc |-> exc]

Did(e)          == Event(e, None, None, None, "")
Traceback(exc)  == Event("traceback", None, None, None, exc)

RECURSIVE AreaWarnings(_)
AreaWarnings(names) ==
    IF names = <<>> THEN <<>>
    ELSE <<Event("print_area_warning", Str(Head(names)), None, None, "")>>
             \o AreaWarnings(Tail(names))

NoListResponse == ListResponse("none", FALSE, FALSE, <<>>)

MainIdle ==
    /\ pc = "idle" /\ config_txt = ConfigFile(FALSE, <<>>) /\ list_resp = NoListResponse
    /\ main_params = EmptyDict /\ job_list = <<>> /\ idx = 0 /\ all_jobs = <<>>
    /\ resps = <<>> /\ events = <<>> /\ exported = <<>>

MainStart ==
    /\ pc = "config" /\ config_txt \in ConfigFiles /\ list_resp = NoListResponse
    /\ main_params = EmptyDict /\ job_list = <<>> /\ idx = 0 /\ all_jobs = <<>>
    /\ resps = <<>> /\ events = <<>> /\ exported = <<>>

\* Line 188 (and line 36): open() raises on a missing file.
ReadConfigExc(file) == IF file.exists THEN "" ELSE "FileNotFoundError"

\* Line 188: params = read_config("config.txt")
MainReadConfig ==
    /\ pc = "config"
    /\ IF ReadConfigExc(config_txt) # ""
       THEN /\ pc' = "crashed:config"
            /\ events' = Append(events, Traceback(ReadConfigExc(config_txt)))
            /\ UNCHANGED main_params
       ELSE LET res == read_config(config_txt.lines)
            IN  /\ pc' = "list"
                /\ main_params' = res.params
                /\ events' = events \o AreaWarnings(res.prints)
    /\ UNCHANGED <<config_txt, list_resp, job_list, idx, all_jobs, resps, exported>>

\* Line 189: job_list = fetch_job_list(params)
MainFetchJobList(resp) ==
    /\ pc = "list"
    /\ list_resp' = resp
    /\ IF FetchJobListExc(resp) # ""
       THEN /\ pc' = "crashed:list"
            /\ events' = events \o <<Did("get_list"), Traceback(FetchJobListExc(resp))>>
            /\ UNCHANGED job_list
       ELSE /\ pc' = "loop"
            /\ events' = Append(events, Did("get_list"))
            /\ job_list' = resp.list
    /\ UNCHANGED <<config_txt, main_params, idx, all_jobs, resps, exported>>

\* Line 90 is reached: fetch_job_detail sends its request.
SendsRequest(job_id) == job_id.t = "str"

\* TryItem with a `break` in the except clause: a failing item ends the loop.
TryItemBreak(jobs, job_id, r) ==
    IF r.exc = ""
    THEN [all_jobs |-> Append(jobs, r.rec),
          events   |-> <<Event("print_ok", None, r.rec["job_name"], r.rec["company_name"], ""),
                         Did("sleep")>>,
          pc       |-> "loop"]
    ELSE [all_jobs |-> jobs,
          events   |-> <<Event("print_skip", job_id, None, None, r.exc)>>,
          pc       |-> "save"]

\* Lines 194-200: the try statement on the outcome r of fetch_job_detail:
\* the new all_jobs, what is printed and slept, and where the program goes.
TryItem(jobs, job_id, r) ==
    IF r.exc = ""
    THEN [all_jobs |-> Append(jobs, r.rec),
          events   |-> <<Event("print_ok", None, r.rec["job_name"], r.rec["company_name"], ""),
                         Did("sleep")>>,
          pc       |-> "loop"]
    ELSE [all_jobs |-> jobs,
          events   |-> <<Event("print_skip", job_id, None, None, r.exc)>>,
          pc       |-> "loop"]

\* Line 193: job["link"]["job"] raises when the element has no "link".
JobIdExc(job) == IF job.has_link THEN "" ELSE "KeyError"

\* Lines 192-200: one iteration of the for loop; resp is the answer of the
\* detail endpoint, NoResponse when the iteration sends no request.
MainLoopItem(resp) ==
    /\ pc = "loop"
    /\ idx < Len(job_list)
    /\ resp # NoResponse <=>
           (JobIdExc(job_list[idx + 1]) = "" /\ SendsRequest(job_list[idx + 1].job))
    /\ idx' = idx + 1
    /\ resps' = Append(resps, resp)
    /\ LET job == job_list[idx + 1]
       IN  IF JobIdExc(job) # ""
           THEN /\ pc' = "crashed:loop"
                /\ events' = Append(events, Traceback(JobIdExc(job)))
                /\ UNCHANGED all_jobs
           ELSE LET job_id == job.job
                    t == TryItem(all_jobs, job_id, FetchJobDetail(job_id, resp))
                IN  /\ pc' = t.pc
                    /\ all_jobs' = t.all_jobs
                    /\ events' = events
                          \o (IF SendsRequest(job_id)
                              THEN <<Event("get_detail", job_id, None, None, "")>> ELSE <<>>)
                          \o t.events
    /\ UNCHANGED <<config_txt, list_resp, main_params, job_list, exported>>

\* Line 192: the list is exhausted.
MainLoopEnd ==
    /\ pc = "loop"
    /\ idx = Len(job_list)
    /\ pc' = "save"
    /\ UNCHANGED <<config_txt, list_resp, main_params, job_list, idx, all_jobs, resps,
                   events, exported>>

\* ShouldExport without the test of line 203.
ShouldExportAlways(jobs) == TRUE

\* Line 203: `if all_jobs:`
ShouldExport(jobs) == jobs # <<>>

\* Lines 203-208; to_excel either writes the file or raises (write_ok).
MainSave(write_ok) ==
    /\ pc = "save"
    /\ IF ShouldExport(all_jobs)
       THEN /\ exported' = all_jobs
            /\ IF write_ok
               THEN /\ events' = events \o <<Did("to_excel"), Did("print_saved")>>
                    /\ pc' = "done"
               ELSE /\ events' = events \o <<Did("to_excel"), Traceback("OSError")>>
                    /\ pc' = "crashed:save"
       ELSE /\ events' = Append(events, Did("print_nothing"))
            /\ pc' = "done"
            /\ UNCHANGED exported
    /\ UNCHANGED <<config_txt, list_resp, main_params, job_list, idx, all_jobs, resps>>

---------------------------------------------------------------------------
(* Specifications.                                                         *)

\* A run of the program.
Init == CfgIdle /\ NdIdle /\ MainStart

Next ==
    \/ MainReadConfig /\ UNCHANGED <<cfg_vars, nd_vars>>
    \/ (\E resp \in ListResponses : MainFetchJobList(resp)) /\ UNCHANGED <<cfg_vars, nd_vars>>
    \/ (\E resp \in RunDetailResponses \cup {NoResponse} : MainLoopItem(resp))
           /\ UNCHANGED <<cfg_vars, nd_vars>>
    \/ MainLoopEnd /\ UNCHANGED <<cfg_vars, nd_vars>>
    \/ (\E write_ok \in BOOLEAN : MainSave(write_ok)) /\ UNCHANGED <<cfg_vars, nd_vars>>

Spec == Init /\ [][Next]_vars

\* read_config on a file of at most MaxLines lines.
InitConfig == CfgOpen /\ NdIdle /\ MainIdle

NextConfigOnly == NextConfig /\ UNCHANGED <<nd_vars, main_vars>>

SpecConfig == InitConfig /\ [][NextConfigOnly]_vars

\* One call of fetch_job_detail.
InitDetail == CfgIdle /\ NdCalled /\ MainIdle

NextDetail == RunFetchJobDetail /\ UNCHANGED <<cfg_vars, main_vars>>

SpecDetail == InitDetail /\ [][NextDetail]_vars

---------------------------------------------------------------------------
(* Properties of the run driver, checked under Spec.                       *)

Happened(e) == \E i \in 1..Len(events) : events[i].e = e

RECURSIVE EventsOf(_, _)
EventsOf(evs, e) ==
    IF evs = <<>> THEN <<>>
    ELSE (IF Head(evs).e = e THEN <<Head(evs)>> ELSE <<>>) \o EventsOf(Tail(evs), e)

\* The outcome of fetch_job_detail for the i-th element of job_list.
ItemOutcome(i) == FetchJobDetail(job_list[i].job, resps[i])

\* The records of the first n elements whose fetch/normalize did not fail.
RECURSIVE RecordsOfOk(_)
RecordsOfOk(n) ==
    IF n = 0 THEN <<>>
    ELSE RecordsOfOk(n - 1)
           \o (IF ItemOutcome(n).exc = "" THEN <<ItemOutcome(n).rec>> ELSE <<>>)

\* The skip warnings of the first n elements whose fetch/normalize failed.
RECURSIVE WarningsOfFailed(_)
WarningsOfFailed(n) ==
    IF n = 0 THEN <<>>
    ELSE WarningsOfFailed(n - 1)
           \o (IF ItemOutcome(n).exc # ""
               THEN <<Event("print_skip", job_list[n].job, None, None, ItemOutcome(n).exc)>>
               ELSE <<>>)

AllItemReferences == \A i \in 1..Len(job_list) : job_list[i].has_link

LoopOver == pc \in {"save", "done", "crashed:save"}

\* C1: when every element of the fetched list carries an item reference and
\* the fetch/normalize of some of them fails, the loop still takes every
\* element, all_jobs holds exactly the records of the non-failing items in
\* listing order, and exactly one skip warning per failing item, naming it,
\* was printed.
C1_PartialFailure ==
    (pc \in {"loop", "save", "done", "crashed:save"} /\ AllItemReferences) =>
        /\ all_jobs = RecordsOfOk(idx)
        /\ EventsOf(events, "print_skip") = WarningsOfFailed(idx)
        /\ LoopOver => idx = Len(job_list)

C1_Witness ==
    /\ pc = "done"
    /\ Len(job_list) = 3
    /\ AllItemReferences
    /\ ItemOutcome(1).exc = "" /\ ItemOutcome(2).exc = "ValueError" /\ ItemOutcome(3).exc = ""
    /\ Len(all_jobs) = 2
    /\ all_jobs[1]["link"] # all_jobs[2]["link"]

\* C2: no failure while handling an element of the list (extracting its
\* item reference included) ends the run: the loop is never left by an
\* exception.
C2_NoItemFailureEndsRun == pc # "crashed:loop"

\* C3: between any two detail fetches there is a delay, whether the earlier
\* item succeeded or was skipped.
C3_DelayBetweenFetches ==
    \A i, j \in 1..Len(events) :
        (i < j /\ events[i].e = "get_detail" /\ events[j].e = "get_detail") =>
            \E k \in (i + 1)..(j - 1) : events[k].e = "sleep"

\* C4: the exporter is invoked only after every element was taken and only
\* with a non-empty result; with an empty result it is never invoked and
\* the "nothing collected" message is printed instead.
C4_ExportOnlyNonEmpty ==
    /\ (Happened("to_excel") \/ exported # <<>>) =>
           /\ LoopOver /\ idx = Len(job_list) /\ pc # "save"
           /\ all_jobs # <<>> /\ exported = all_jobs
           /\ Len(EventsOf(events, "to_excel")) = 1
           /\ ~Happened("print_nothing")
    /\ (pc = "done" /\ all_jobs = <<>>) =>
           /\ ~Happened("to_excel") /\ exported = <<>>
           /\ events[Len(events)] = Did("print_nothing")

C4_Witness ==
    /\ pc = "done"
    /\ Len(job_list) = 2 /\ idx = 2 /\ AllItemReferences
    /\ all_jobs = <<>>
    /\ events[Len(events)] = Did("print_nothing")

\* The listing fetch fails: HTTP failure status, non-JSON body or no data.list.
ListingFetchFails ==
    /\ list_resp # NoListResponse
    /\ list_resp.status # "ok" \/ ~list_resp.json \/ ~list_resp.has_list

NoOutput == ~Happened("to_excel") /\ exported = <<>> /\ all_jobs = <<>>

\* C5: if config.txt is missing the run ends before any request is sent; if
\* the listing fetch fails the run ends with no detail fetch and no export.
C5_PreLoopFailuresFatal ==
    /\ (~config_txt.exists /\ pc # "config") =>
           /\ pc = "crashed:config"
           /\ ~Happened("get_list") /\ ~Happened("get_detail") /\ NoOutput
           /\ ~ENABLED Next
    /\ ListingFetchFails =>
           /\ pc = "crashed:list"
           /\ ~Happened("get_detail") /\ NoOutput
           /\ ~ENABLED Next

C5_Witness ==
    /\ pc = "crashed:list"
    /\ list_resp.status = "ok" /\ list_resp.json /\ ~list_resp.has_list
    /\ Happened("get_list")

---------------------------------------------------------------------------
(* Properties of read_config, checked under SpecConfig.                    *)

\* The name written as t is a key of the table once trimmed.
Recognized(t) == Len(Strip(t)) = 1 /\ Strip(t)[1] \in DOMAIN AREA_CODES

\* The table codes of the recognized names of l, in the order of l.
RECURSIVE CodesOf(_)
CodesOf(l) ==
    IF l = <<>> THEN <<>>
    ELSE (IF Recognized(Head(l)) THEN <<<<AREA_CODES[Strip(Head(l))[1]]>>>> ELSE <<>>)
           \o CodesOf(Tail(l))

\* The unrecognized names of l, trimmed, in the order of l.
RECURSIVE UnknownOf(_)
UnknownOf(l) ==
    IF l = <<>> THEN <<>>
    ELSE (IF Recognized(Head(l)) THEN <<>> ELSE <<Strip(Head(l))>>) \o UnknownOf(Tail(l))

EndsWith(s, t) == Len(s) >= Len(t) /\ SubSeq(s, Len(s) - Len(t) + 1, Len(s)) = t

\* C6: after an `area=` line with the names l, params["area"] is the
\* comma-join of the codes of exactly the recognized names of l in their
\* order, and each unrecognized name was only warned about.
C6_RegionResolution ==
    \A l \in NameSeqs :
        line = AreaLineOf(<<"area", "=">>, l) =>
            /\ <<"area">> \in DOMAIN params
            /\ params[<<"area">>] = Join(CodesOf(l), <<",">>)
            /\ EndsWith(warned, UnknownOf(l))

C6_Witness ==
    /\ line = <<"area", "=", "TaipeiCity", ",", "NewTaipeiCity", "\n">>
    /\ params[<<"area">>] = <<"6001001000", ",", "6001002000">>
    /\ warned = <<>>

\* C7: after any line whose key is the region-filter key once trimmed (such
\* as `area = TaipeiCity`), the value stored under "area" is the comma-join
\* of the resolved codes, not the names as written.
C7_KeyTrimmedBeforeCompare ==
    \A k \in AreaKeyTexts : \A l \in NameSeqs :
        line = AreaLineOf(k, l) =>
            /\ <<"area">> \in DOMAIN params
            /\ params[<<"area">>] = Join(CodesOf(l), <<",">>)

---------------------------------------------------------------------------
(* Properties of fetch_job_detail, checked under SpecDetail.               *)

\* The call returned a record for the document doc.
Normalized == nd_pc = "returned" /\ nd_out.exc = ""

InDoc(p) == nd_in.resp.doc[p]

\* A source is empty or absent (present-but-null included).
IsEmpty(v) == v.t \in {"absent", "null"} \/ v = Str(<<>>) \/ v = List(<<>>)

\* C8: when every higher-priority source of a fallback-chain field is empty
\* or absent and the lowest-priority source is populated, the record
\* carries the lowest-priority value (for the other conditions: that value
\* with line breaks replaced and trimmed, as the chain prescribes).
C8_LowestPrioritySurfaces ==
    Normalized =>
        /\ (/\ IsEmpty(InDoc(<<"custName">>)) /\ IsEmpty(InDoc(<<"custInfo", "custName">>))
            /\ ~IsEmpty(InDoc(<<"header", "custName">>)))
               => nd_out.rec["company_name"] = InDoc(<<"header", "custName">>)
        /\ (/\ IsEmpty(InDoc(<<"jobDetail", "jobName">>)) /\ IsEmpty(InDoc(<<"header", "jobName">>))
            /\ ~IsEmpty(InDoc(<<"jobName">>)))
               => nd_out.rec["job_name"] = InDoc(<<"jobName">>)
        /\ (IsEmpty(InDoc(<<"condition", "specialty">>)) /\ ~IsEmpty(InDoc(<<"jobDetail", "specialty">>)))
               => nd_out.rec["specialty"] = InDoc(<<"jobDetail", "specialty">>)
        /\ (IsEmpty(InDoc(<<"condition", "skill">>)) /\ ~IsEmpty(InDoc(<<"jobDetail", "skill">>)))
               => nd_out.rec["skills"] = InDoc(<<"jobDetail", "skill">>)
        /\ (/\ IsEmpty(InDoc(<<"condition", "other">>))
            /\ IsEmpty(InDoc(<<"jobDetail", "otherCondition">>))
            /\ ~IsEmpty(InDoc(<<"requirement", "other">>)))
               => nd_out.rec["other_condition"]
                      = Str(Strip(ReplaceCRLF(InDoc(<<"requirement", "other">>).s)))

\* C9: every record has all 15 fields, none of them null or absent, and a
\* fallback-chain field whose sources are all empty or absent holds its
\* placeholder.
C9_RecordFullyPopulated ==
    Normalized =>
        /\ DOMAIN nd_out.rec = ColumnSet /\ Cardinality(ColumnSet) = 15
        /\ \A c \in ColumnSet : nd_out.rec[c].t \notin {"null", "absent"}
        /\ (/\ IsEmpty(InDoc(<<"custName">>)) /\ IsEmpty(InDoc(<<"custInfo", "custName">>))
            /\ IsEmpty(InDoc(<<"header", "custName">>)))
               => nd_out.rec["company_name"] = UnknownCompany
        /\ (/\ IsEmpty(InDoc(<<"jobDetail", "jobName">>)) /\ IsEmpty(InDoc(<<"header", "jobName">>))
            /\ IsEmpty(InDoc(<<"jobName">>)))
               => nd_out.rec["job_name"] = UntitledJob
        /\ (IsEmpty(InDoc(<<"condition", "specialty">>)) /\ IsEmpty(InDoc(<<"jobDetail", "specialty">>)))
               => nd_out.rec["specialty"] = Unspecified
        /\ (IsEmpty(InDoc(<<"condition", "skill">>)) /\ IsEmpty(InDoc(<<"jobDetail", "skill">>)))
               => nd_out.rec["skills"] = Unspecified
        /\ (/\ IsEmpty(InDoc(<<"condition", "other">>))
            /\ IsEmpty(InDoc(<<"jobDetail", "otherCondition">>))
            /\ IsEmpty(InDoc(<<"requirement", "other">>)))
               => nd_out.rec["other_condition"] = Str(<<>>)

\* The document is accepted by the fetcher (its data object is there and
\* not empty) and every section and field the normalizer reads is absent,
\* empty or null.
PresentButEmpty ==
    /\ nd_in.resp.status = "ok" /\ nd_in.resp.json /\ ~DataFalsy(nd_in.resp)
    /\ \A p \in Paths \ {<<"switch">>} : IsEmpty(InDoc(p)) \/ InDoc(p) = Dict

\* C10: normalizing a structurally-present-but-empty document never raises:
\* the call returns a record.
C10_NeverThrowsOnEmptyDocument ==
    (nd_pc = "returned" /\ PresentButEmpty) => nd_out.exc = ""

=============================================================================
